---- MODULE Spec2Model ----
(***************************************************************************)
(* Model of the price-updates repository (src/src/index.ts).                *)
(*                                                                         *)
(* The file holds four variants of one pipeline:                           *)
(*   "chat"      lines   1-202  Telegram bot driven by a cron timer        *)
(*   "bot"       lines 203-461  the same bot plus an HTTP server (/test)   *)
(*   "dashboard" lines 462-838  HTTP dashboard (pull model)                *)
(*   "email"     lines 839-1042 e-mail report driven by a cron timer       *)
(*                                                                         *)
(* Numbers are integers: a price is a whole amount, a 24h change is a      *)
(* signed whole amount.  Rendered text is a sequence of parts, one part    *)
(* per template fragment, so that the presence and the order of the        *)
(* fragments can be inspected.                                             *)
(***************************************************************************)
EXTENDS Integers, Sequences, FiniteSets, TLC

VARIABLES
    variant,     \* which of the four programs is running
    BOT_TOKEN,   \* process.env.BOT_TOKEN || ''
    CHAT_ID,     \* process.env.CHAT_ID || ''
    proc,        \* the host process: "loading", "running", "crashed"
    tasks,       \* one record per trigger fire / inbound request
    fin,         \* input of the function under test (pure specification)
    fout,        \* output of the function under test (pure specification)
    clock,       \* wall-clock time, in minutes of UTC since the process started
    fired,       \* the clock values at which the cron callback ran
    server,      \* the HTTP server: listening socket, open connections, close callbacks
    signals      \* the shutdown signals the process has received, in order

vars == <<variant, BOT_TOKEN, CHAT_ID, proc, tasks, fin, fout, clock, fired, server, signals>>

\* the state of the timer and of the shutdown handling
hostvars == <<clock, fired, server, signals>>

(***************************************************************************)
(* Bounds                                                                  *)
(***************************************************************************)
MaxUsd == 2      \* usd values in a price-API entry range over 1..MaxUsd
MaxChange == 1   \* usd_24h_change ranges over -MaxChange..MaxChange
MaxTasks == 2    \* trigger fires / requests per behaviour
MaxDays == 2     \* days of wall-clock time the timer specification covers
MaxConns == 2    \* HTTP connections open at once
MaxSignals == 2  \* shutdown signals delivered to one process

(***************************************************************************)
(* Static data                                                             *)
(***************************************************************************)
\* Object.entries(CRYPTO_TOKENS) of the chat, bot and email variants
CRYPTO_TOKENS ==
    << [symbol |-> "COOKIE", coinGeckoId |-> "cookie-dao"],
       [symbol |-> "BTC",    coinGeckoId |-> "bitcoin"],
       [symbol |-> "KAITO",  coinGeckoId |-> "kaito-ai"] >>

\* Object.entries(CRYPTO_TOKENS) of the dashboard variant
CRYPTO_TOKENS_DASHBOARD ==
    << [symbol |-> "COOKIE", coinGeckoId |-> "cookie"],
       [symbol |-> "BTC",    coinGeckoId |-> "bitcoin"],
       [symbol |-> "KAITO",  coinGeckoId |-> "kaito"] >>

TokensOf(v) == IF v = "dashboard" THEN CRYPTO_TOKENS_DASHBOARD ELSE CRYPTO_TOKENS

\* Object.values(CRYPTO_TOKENS): the provider ids put in the request url
tokenIds(tokens) == { tokens[i].coinGeckoId : i \in 1..Len(tokens) }

\* an id the price API may answer with although it was never asked for
UntrackedId == "dogecoin"

(***************************************************************************)
(* The price API's answers                                                 *)
(***************************************************************************)
\* one entry of the response body; usd_24h_change may be missing
Entries ==
    { [usd |-> u] : u \in 1..MaxUsd } \cup
    { [usd |-> u, usd_24h_change |-> c] : u \in 1..MaxUsd, c \in -MaxChange..MaxChange }

\* a JSON object keyed by provider id
Bodies(ids) == UNION { [S -> Entries] : S \in SUBSET ids }

ErrorStatuses == {429, 503}

\* what `await fetch(url)` followed by `await response.json()` can give
FailedResponses ==
    { [kind |-> "netfail"] } \cup
    { [kind |-> "http", ok |-> FALSE, status |-> s] : s \in ErrorStatuses } \cup
    { [kind |-> "http", ok |-> TRUE, status |-> 200, parse |-> p] : p \in {"invalid", "null"} }

OkResponse(b) == [kind |-> "http", ok |-> TRUE, status |-> 200, parse |-> "object", body |-> b]

(***************************************************************************)
(* getCryptoPrices                                                         *)
(***************************************************************************)
\* `if (priceData)`: data[coinGeckoId] is undefined unless the key is there
priceDataPresent(data, coinGeckoId) == coinGeckoId \in DOMAIN data

\* `priceData.usd_24h_change || 0`
changeOrZero(priceData) ==
    IF "usd_24h_change" \in DOMAIN priceData /\ priceData.usd_24h_change # 0
    THEN priceData.usd_24h_change
    ELSE 0

\* fault injection: the default is forgotten, the field stays undefined when missing
makeQuoteNoDefault(symbol, coinGeckoId, priceData) ==
    IF "usd_24h_change" \in DOMAIN priceData
    THEN [id |-> coinGeckoId, symbol |-> symbol, name |-> symbol,
          current_price |-> priceData.usd,
          price_change_percentage_24h |-> priceData.usd_24h_change]
    ELSE [id |-> coinGeckoId, symbol |-> symbol, name |-> symbol,
          current_price |-> priceData.usd]

\* the object pushed onto `prices`
makeQuote(symbol, coinGeckoId, priceData) ==
    [id |-> coinGeckoId, symbol |-> symbol, name |-> symbol,
     current_price |-> priceData.usd,
     price_change_percentage_24h |-> changeOrZero(priceData)]

\* fault injection: every tracked token is pushed, an absent one with zeros
pushQuoteAlways(prices, token, data) ==
    IF priceDataPresent(data, token.coinGeckoId)
    THEN Append(prices, makeQuote(token.symbol, token.coinGeckoId, data[token.coinGeckoId]))
    ELSE Append(prices, [id |-> token.coinGeckoId, symbol |-> token.symbol,
                         name |-> token.symbol, current_price |-> 0,
                         price_change_percentage_24h |-> 0])

\* fault injection: the quote is put in front (unshift instead of push)
pushQuoteInFront(prices, token, data) ==
    IF priceDataPresent(data, token.coinGeckoId)
    THEN << makeQuote(token.symbol, token.coinGeckoId, data[token.coinGeckoId]) >> \o prices
    ELSE prices

\* one iteration of the for..of loop
pushQuote(prices, token, data) ==
    IF priceDataPresent(data, token.coinGeckoId)
    THEN Append(prices, makeQuote(token.symbol, token.coinGeckoId, data[token.coinGeckoId]))
    ELSE prices

\* the for..of loop over Object.entries(CRYPTO_TOKENS), from entry i on
RECURSIVE collectPrices(_, _, _, _)
collectPrices(tokens, data, i, prices) ==
    IF i > Len(tokens) THEN prices
    ELSE collectPrices(tokens, data, i + 1, pushQuote(prices, tokens[i], data))

\* the Error objects getCryptoPrices can throw
HttpError(status) ==
    [name |-> "Error",
     message |-> IF status = 429 THEN "HTTP error! status: 429"
                 ELSE "HTTP error! status: 503"]
FetchFailed == [name |-> "TypeError", message |-> "fetch failed"]
JsonInvalid == [name |-> "SyntaxError", message |-> "Unexpected token < in JSON"]
NullBody == [name |-> "TypeError", message |-> "Cannot read properties of null"]

Returned(v) == [threw |-> FALSE, value |-> v]
Threw(e) == [threw |-> TRUE, error |-> e]

\* getCryptoPrices, given what the price API answered
getCryptoPrices(tokens, response) ==
    IF response.kind = "netfail" THEN Threw(FetchFailed)
    ELSE IF ~response.ok THEN Threw(HttpError(response.status))
    ELSE IF response.parse = "invalid" THEN Threw(JsonInvalid)
    ELSE IF response.parse = "null" THEN Threw(NullBody)
    ELSE Returned(collectPrices(tokens, response.body, 1, <<>>))

(***************************************************************************)
(* Renderers                                                               *)
(***************************************************************************)
\* Number.prototype.toFixed(2): the minus sign is part of the digits
toFixed(x) == [minus |-> x < 0, abs |-> IF x < 0 THEN -x ELSE x]

\* the text of a change line as the template literal puts it together: the
\* interpolated prefixes in order, then the digits of toFixed(2), then "%"
changeLine(prefixes, x) ==
    [k \in 1..Len(prefixes) |-> [lit |-> prefixes[k]]]
    \o << [num |-> toFixed(x)], [lit |-> "% (24h)"] >>

\* fault injection: the tie-break is `> 0`, a flat change counts as down
telegramTokenStrict(token) ==
    [part |-> "token",
     symbol |-> token.symbol,
     price |-> [style |-> "currency", value |-> token.current_price],
     changeEmoji |-> IF token.price_change_percentage_24h > 0 THEN "chart-up" ELSE "chart-down",
     changeSymbol |-> IF token.price_change_percentage_24h > 0 THEN "+" ELSE "",
     change |-> toFixed(token.price_change_percentage_24h),
     changeText |-> changeLine(
         << IF token.price_change_percentage_24h > 0 THEN "chart-up" ELSE "chart-down",
            IF token.price_change_percentage_24h > 0 THEN "+" ELSE "" >>,
         token.price_change_percentage_24h)]

\* one pass of the forEach in formatTelegramMessage
telegramToken(token) ==
    [part |-> "token",
     symbol |-> token.symbol,
     price |-> [style |-> "currency", value |-> token.current_price],
     changeEmoji |-> IF token.price_change_percentage_24h >= 0 THEN "chart-up" ELSE "chart-down",
     changeSymbol |-> IF token.price_change_percentage_24h >= 0 THEN "+" ELSE "",
     change |-> toFixed(token.price_change_percentage_24h),
     changeText |-> changeLine(
         << IF token.price_change_percentage_24h >= 0 THEN "chart-up" ELSE "chart-down",
            IF token.price_change_percentage_24h >= 0 THEN "+" ELSE "" >>,
         token.price_change_percentage_24h)]

\* formatTelegramMessage: title, date, one block per quote, two footer lines
formatTelegramMessage(prices) ==
    << [part |-> "title", text |-> "Daily Crypto Price Report"],
       [part |-> "date", timeZone |-> "Australia/Brisbane"] >>
    \o [i \in 1..Len(prices) |-> telegramToken(prices[i])]
    \o << [part |-> "source", text |-> "Data provided by CoinGecko API"],
          [part |-> "schedule", text |-> "Sent daily at 11:00 AM Brisbane time"] >>

\* the failure text sendCryptoPriceUpdate builds in its catch block
errorMessage(error) ==
    << [part |-> "failed", text |-> "Crypto Price Update Failed"],
       [part |-> "error", text |-> error.message],
       [part |-> "time", timeZone |-> "Australia/Brisbane"] >>

\* the optional `error?: string` argument of generateHTML, when omitted
NoError == "<undefined>"

\* JavaScript truthiness of the `error` argument
truthy(error) == error # NoError /\ error # ""

\* one element of prices.map(...) in generateHTML
priceCard(token) ==
    [part |-> "price-card",
     symbol |-> token.symbol,
     price |-> [style |-> "decimal", value |-> token.current_price],
     changeSymbol |-> IF token.price_change_percentage_24h >= 0 THEN "triangle-up" ELSE "triangle-down",
     changeColor |-> IF token.price_change_percentage_24h >= 0 THEN "#10b981" ELSE "#ef4444",
     change |-> toFixed(token.price_change_percentage_24h),
     changeText |-> changeLine(
         << IF token.price_change_percentage_24h >= 0 THEN "triangle-up" ELSE "triangle-down" >>,
         token.price_change_percentage_24h)]

\* `${error ? `<div class="error">...` : ''}`
errorBanner(error) ==
    IF truthy(error) THEN << [part |-> "error", text |-> error] >> ELSE << >>

\* `${priceCards || '<div class="loading">...Loading prices...</div>'}`
priceGrid(priceCards) ==
    IF priceCards # << >> THEN priceCards
    ELSE << [part |-> "loading", text |-> "Loading prices..."] >>

\* generateHTML: the page template around the cards
generateHTML(prices, error) ==
    << [part |-> "header", text |-> "Crypto Price Dashboard"],
       [part |-> "last-updated", timeZone |-> "Australia/Brisbane"] >>
    \o errorBanner(error)
    \o << [part |-> "controls", text |-> "Refresh Prices"] >>
    \o priceGrid([i \in 1..Len(prices) |-> priceCard(prices[i])])
    \o << [part |-> "footer", text |-> "Data provided by CoinGecko API"],
          [part |-> "script", text |-> "location.reload every 5 minutes"] >>

\* one pass of the forEach in formatPriceEmail
emailToken(token) ==
    [part |-> "token",
     symbol |-> token.symbol,
     price |-> [style |-> "decimal", value |-> token.current_price],
     changeClass |-> IF token.price_change_percentage_24h >= 0 THEN "positive" ELSE "negative",
     changeSymbol |-> IF token.price_change_percentage_24h >= 0 THEN "triangle-up" ELSE "triangle-down",
     change |-> toFixed(token.price_change_percentage_24h),
     changeText |-> changeLine(
         << IF token.price_change_percentage_24h >= 0 THEN "triangle-up" ELSE "triangle-down" >>,
         token.price_change_percentage_24h)]

\* formatPriceEmail: header, one block per quote, footer
formatPriceEmail(prices) ==
    << [part |-> "header", text |-> "Daily Crypto Price Report"],
       [part |-> "date", timeZone |-> "Australia/Brisbane"] >>
    \o [i \in 1..Len(prices) |-> emailToken(prices[i])]
    \o << [part |-> "footer", text |-> "Data provided by CoinGecko API"],
          [part |-> "schedule", text |-> "sent daily at 11:00 AM Brisbane time"] >>

(***************************************************************************)
(* sendTelegramMessage                                                     *)
(***************************************************************************)
\* what the POST to the messaging API can give: the request fails, or a
\* response arrives whose body does or does not parse as JSON
PostOutcomes ==
    { [kind |-> "netfail"] } \cup
    { [kind |-> "http", ok |-> ok, json |-> j] : ok \in BOOLEAN, j \in BOOLEAN }

TelegramApiError == [name |-> "Error", message |-> "Telegram API error: {ok:false}"]

\* the messaging API took the message: a response with a 2xx status came
accepted(outcome) == outcome.kind = "http" /\ outcome.ok

\* fault injection: the `if (!response.ok)` check is missing
sendTelegramMessageNoOkCheck(outcome) ==
    IF outcome.kind = "netfail"
    THEN [settled |-> "rejected", loggedSent |-> FALSE, accepted |-> FALSE, error |-> FetchFailed]
    ELSE IF ~outcome.json
    THEN [settled |-> "rejected", loggedSent |-> FALSE, accepted |-> accepted(outcome),
          error |-> JsonInvalid]
    ELSE [settled |-> "resolved", loggedSent |-> TRUE, accepted |-> accepted(outcome)]

\* sendTelegramMessage from the point where the POST settles
sendTelegramMessage(outcome) ==
    IF outcome.kind = "netfail"
    THEN [settled |-> "rejected", loggedSent |-> FALSE, accepted |-> FALSE, error |-> FetchFailed]
    ELSE IF ~outcome.ok
    THEN IF outcome.json
         THEN [settled |-> "rejected", loggedSent |-> FALSE, accepted |-> FALSE,
               error |-> TelegramApiError]
         ELSE [settled |-> "rejected", loggedSent |-> FALSE, accepted |-> FALSE,
               error |-> JsonInvalid]
    ELSE IF outcome.json
         THEN [settled |-> "resolved", loggedSent |-> TRUE, accepted |-> TRUE]
         ELSE [settled |-> "rejected", loggedSent |-> FALSE, accepted |-> TRUE,
               error |-> JsonInvalid]

(***************************************************************************)
(* Tasks: one per trigger fire or inbound request                          *)
(***************************************************************************)
\* no function of the pure specification has been applied yet
NoCall == [fn |-> "none"]

NoResponse == [status |-> 0, contentType |-> "", body |-> [text |-> ""]]
NoErr == [name |-> "none", message |-> ""]
NoFetch == [kind |-> "none"]
NoPriceData == [name |-> "Error", message |-> "No price data retrieved"]

\* a task at the moment its trigger fires
NewTask(trigger, path) ==
    [trigger |-> trigger, path |-> path, pc |-> "start", log |-> << >>,
     fetched |-> NoFetch, prices |-> << >>, error |-> NoErr, result |-> "pending",
     response |-> NoResponse, posts |-> << >>, mails |-> << >>]

\* the call `fetch(url)` inside getCryptoPrices: the request goes out
issueFetch(t) ==
    [t EXCEPT !.pc = "fetching", !.log = Append(@, [ev |-> "fetch"])]

\* the call `fetch(url, {method: 'POST', ...})` inside sendTelegramMessage
issuePost(t, what, message, pc) ==
    [t EXCEPT !.pc = pc,
              !.log = Append(@, [ev |-> "post", what |-> what]),
              !.posts = Append(@, [what |-> what, chat_id |-> CHAT_ID, text |-> message,
                                   settled |-> "pending", loggedSent |-> FALSE,
                                   accepted |-> FALSE])]

\* res.writeHead(status, ...); res.end(body); the body is tagged with its
\* kind: [text |-> ...], [json |-> ...] or [html |-> ...]
respond(t, status, contentType, body) ==
    [t EXCEPT !.response = [status |-> status, contentType |-> contentType, body |-> body],
              !.log = Append(@, [ev |-> "response"])]

\* the async function returns or throws: its promise settles
settle(t, result) == [t EXCEPT !.pc = "done", !.result = result]

\* the last POST of the task settles
settlePost(t, s) ==
    [t EXCEPT !.posts[Len(t.posts)].settled = s.settled,
              !.posts[Len(t.posts)].loggedSent = s.loggedSent,
              !.posts[Len(t.posts)].accepted = s.accepted]

(***************************************************************************)
(* sendCryptoPriceUpdate                                                   *)
(***************************************************************************)
\* fault injection: the outer catch rethrows after logging
catchUpdateErrorRethrow(t, error) ==
    settle([t EXCEPT !.error = error], "rejected")

\* the catch block of sendCryptoPriceUpdate, up to its await
catchUpdateError(t, error) ==
    IF BOT_TOKEN # "" /\ CHAT_ID # ""
    THEN issuePost([t EXCEPT !.error = error], "failure", errorMessage(error), "notifying")
    ELSE settle([t EXCEPT !.error = error], "resolved")

\* fault injection: an empty quote list is formatted and sent like any other
afterFetchSendEmpty(t, r) ==
    IF r.threw THEN catchUpdateError(t, r.error)
    ELSE issuePost([t EXCEPT !.prices = r.value], "report",
                   formatTelegramMessage(r.value), "sending")

\* the try block of sendCryptoPriceUpdate from the point where
\* getCryptoPrices settles with r, up to the next await
afterFetch(t, r) ==
    IF r.threw THEN catchUpdateError(t, r.error)
    ELSE IF Len(r.value) = 0 THEN catchUpdateError([t EXCEPT !.prices = r.value], NoPriceData)
    ELSE issuePost([t EXCEPT !.prices = r.value], "report",
                   formatTelegramMessage(r.value), "sending")

\* fault injection: a failed report is sent again instead of being reported
afterReportRetry(t, s) ==
    IF s.settled = "resolved" THEN settle(settlePost(t, s), "resolved")
    ELSE issuePost(settlePost(t, s), "report", t.posts[1].text, "notifying")

\* `await sendTelegramMessage(message)` settles with s
afterReport(t, s) ==
    IF s.settled = "resolved" THEN settle(settlePost(t, s), "resolved")
    ELSE catchUpdateError(settlePost(t, s), s.error)

\* fault injection: the inner try/catch around the failure notification is missing
afterNotifyUncaught(t, s) ==
    settle(settlePost(t, s), s.settled)

\* `await sendTelegramMessage(errorMessage)` settles with s inside the
\* inner try/catch
afterNotify(t, s) ==
    settle(settlePost(t, s), "resolved")

(***************************************************************************)
(* sendPriceEmail                                                          *)
(***************************************************************************)
\* `transporter.sendMail(mailOptions)`: the mail is handed to the relay
issueMail(t, html) ==
    [t EXCEPT !.pc = "mailing",
              !.log = Append(@, [ev |-> "mail"]),
              !.mails = Append(@, [subject |-> "Daily Crypto Report", html |-> html])]

\* fault injection: the catch block rethrows after logging
afterFetchEmailRethrow(t, r) ==
    IF r.threw THEN settle([t EXCEPT !.error = r.error], "rejected")
    ELSE IF Len(r.value) = 0
    THEN settle([t EXCEPT !.prices = r.value, !.error = NoPriceData], "rejected")
    ELSE issueMail([t EXCEPT !.prices = r.value], formatPriceEmail(r.value))

\* sendPriceEmail from the point where getCryptoPrices settles with r, up
\* to the next await; the catch block only logs
afterFetchEmail(t, r) ==
    IF r.threw THEN settle([t EXCEPT !.error = r.error], "resolved")
    ELSE IF Len(r.value) = 0
    THEN settle([t EXCEPT !.prices = r.value, !.error = NoPriceData], "resolved")
    ELSE issueMail([t EXCEPT !.prices = r.value], formatPriceEmail(r.value))

MailOutcomes == {"sent", "failed"}
SendMailFailed == [name |-> "Error", message |-> "sendMail failed"]

\* `await transporter.sendMail(mailOptions)` settles; a failure is caught
\* and logged
afterMail(t, outcome) ==
    IF outcome = "sent" THEN settle(t, "resolved")
    ELSE settle([t EXCEPT !.error = SendMailFailed], "resolved")

(***************************************************************************)
(* HTTP handlers                                                           *)
(***************************************************************************)
\* fault injection: the handler starts the run first and answers afterwards
handleTestRunFirst(t) ==
    respond(issueFetch(t), 200, "text/plain", [text |-> "Triggering test message..."])

\* bot, `req.url === '/test'`: answer, then call sendTestMessage(), which
\* runs sendCryptoPriceUpdate up to its first await
handleTest(t) ==
    issueFetch(respond(t, 200, "text/plain", [text |-> "Triggering test message..."]))

\* the request handler of the bot's HTTP server
botHandler(t) ==
    IF t.path = "/health"
    THEN settle(respond(t, 200, "application/json",
                        [json |-> [status |-> "healthy",
                                   nextSchedule |-> "11:00 AM Brisbane time daily",
                                   botConfigured |-> (BOT_TOKEN # "" /\ CHAT_ID # "")]]),
                "resolved")
    ELSE IF t.path = "/test"
    THEN handleTest(t)
    ELSE settle(respond(t, 200, "text/html",
                        [html |-> << [part |-> "title", text |-> "Crypto Price Telegram Bot"],
                                     [part |-> "status",
                                      configured |-> (BOT_TOKEN # "" /\ CHAT_ID # "")] >>]),
                "resolved")

\* the dashboard's request handler up to its first await
dashboardHandler(t, method) ==
    IF method = "OPTIONS"
    THEN settle(respond(t, 200, "", [text |-> ""]), "resolved")
    ELSE issueFetch(t)

\* fault injection: the API path degrades like the page and answers 200
apiAnswerAlways200(t, r) ==
    IF r.threw
    THEN respond([t EXCEPT !.error = r.error], 200, "application/json",
                 [json |-> [success |-> FALSE, error |-> r.error.message]])
    ELSE respond([t EXCEPT !.prices = r.value], 200, "application/json",
                 [json |-> [success |-> TRUE, data |-> r.value]])

\* `/api/prices`: the try/catch around getCryptoPrices
apiAnswer(t, r) ==
    IF r.threw
    THEN respond([t EXCEPT !.error = r.error], 500, "application/json",
                 [json |-> [success |-> FALSE, error |-> r.error.message]])
    ELSE respond([t EXCEPT !.prices = r.value], 200, "application/json",
                 [json |-> [success |-> TRUE, data |-> r.value]])

\* every other path: the try/catch around getCryptoPrices and generateHTML
pageAnswer(t, r) ==
    IF r.threw
    THEN respond([t EXCEPT !.error = r.error], 200, "text/html",
                 [html |-> generateHTML(<< >>, r.error.message)])
    ELSE respond([t EXCEPT !.prices = r.value], 200, "text/html",
                 [html |-> generateHTML(r.value, NoError)])

\* the dashboard's request handler from the point where getCryptoPrices
\* settles with r
afterFetchDashboard(t, r) ==
    IF t.path = "/api/prices"
    THEN settle(apiAnswer(t, r), "resolved")
    ELSE settle(pageAnswer(t, r), "resolved")

(***************************************************************************)
(* The programs                                                            *)
(***************************************************************************)
Variants == {"chat", "bot", "dashboard", "email"}

\* the entries the price API answers with in the pipeline specification:
\* a rise, a fall, and an entry without its 24h change
SampleEntry(i) ==
    IF i = 1 THEN [usd |-> 1, usd_24h_change |-> 1]
    ELSE IF i = 2 THEN [usd |-> 2, usd_24h_change |-> -1]
    ELSE [usd |-> 1]

\* the bodies: no tracked id, one tracked id, every tracked id
PipelineBodies(tokens) ==
    { [id \in S |-> SampleEntry(CHOOSE i \in 1..Len(tokens) : tokens[i].coinGeckoId = id)] :
        S \in { {}, {tokens[2].coinGeckoId}, tokenIds(tokens) } }

\* the failures: no connection, HTTP 503, a body that is not JSON
PipelineFailures ==
    { r \in FailedResponses :
        \/ r.kind = "netfail"
        \/ r.kind = "http" /\ ~r.ok /\ r.status = 503
        \/ r.kind = "http" /\ r.ok /\ r.parse = "invalid" }

PipelineResponses(tokens) ==
    PipelineFailures \cup { OkResponse(b) : b \in PipelineBodies(tokens) }

\* no http server is created (chat and email variants)
NoServer == [socket |-> "none", conns |-> 0, closeCallbacks |-> 0]

\* `createServer(...)` and `server.listen(PORT, ...)` at module load
ServerAtStart(v) ==
    IF v \in {"bot", "dashboard"}
    THEN [socket |-> "listening", conns |-> 0, closeCallbacks |-> 0]
    ELSE NoServer

Init ==
    /\ variant \in Variants
    /\ BOT_TOKEN \in IF variant \in {"chat", "bot"} THEN {"", "123456:token"} ELSE {""}
    /\ CHAT_ID \in IF variant \in {"chat", "bot"} THEN {"", "-1001"} ELSE {""}
    /\ proc = IF variant = "email" THEN "loading" ELSE "running"
    /\ tasks = << >>
    /\ fin = [tokens |-> << >>]
    /\ fout = NoCall
    /\ clock = 0
    /\ fired = << >>
    /\ server = ServerAtStart(variant)
    /\ signals = << >>

\* email, line 864: `nodemailer.createTransporter(...)` runs while the
\* module loads.  The nodemailer package is not part of the repository;
\* the published package exports createTransport only, in which case the
\* call throws a TypeError and the process ends before cron.schedule.
LoadEmailModule ==
    /\ proc = "loading"
    /\ \E factoryExists \in BOOLEAN :
          proc' = IF factoryExists THEN "running" ELSE "crashed"
    /\ UNCHANGED hostvars
    /\ UNCHANGED <<variant, BOT_TOKEN, CHAT_ID, tasks, fin, fout>>

\* a promise nobody handles rejects: Node ends the process
procAfter(t) ==
    IF t.result = "rejected" /\ t.trigger # "test" THEN "crashed" ELSE proc

\* the cron callback: sendCryptoPriceUpdate() or sendPriceEmail() is
\* called and runs up to its first await, the fetch of the prices
CronFire ==
    /\ proc = "running"
    /\ variant \in {"chat", "bot", "email"}
    /\ Len(tasks) < MaxTasks
    /\ tasks' = Append(tasks, issueFetch(NewTask("cron", "")))
    /\ UNCHANGED hostvars
    /\ UNCHANGED <<variant, BOT_TOKEN, CHAT_ID, proc, fin, fout>>

\* an inbound request to the bot's HTTP server
BotRequest ==
    /\ proc = "running"
    /\ variant = "bot"
    /\ Len(tasks) < MaxTasks
    /\ \E path \in {"/health", "/test", "/"} :
          LET trigger == IF path = "/test" THEN "test" ELSE "request" IN
          tasks' = Append(tasks, botHandler(NewTask(trigger, path)))
    /\ UNCHANGED hostvars
    /\ UNCHANGED <<variant, BOT_TOKEN, CHAT_ID, proc, fin, fout>>

\* an inbound request to the dashboard
DashboardRequest ==
    /\ proc = "running"
    /\ variant = "dashboard"
    /\ Len(tasks) < MaxTasks
    /\ \E method \in {"GET", "OPTIONS"}, path \in {"/", "/api/prices"} :
          tasks' = Append(tasks, dashboardHandler(NewTask("request", path), method))
    /\ UNCHANGED hostvars
    /\ UNCHANGED <<variant, BOT_TOKEN, CHAT_ID, proc, fin, fout>>

\* fault injection: the quotes are kept in a module-level cache, a run
\* continues with what the first run of the process fetched
continueAfterFetchShared(t, r) ==
    LET cached == IF tasks[1].fetched # NoFetch
                  THEN getCryptoPrices(TokensOf(variant), tasks[1].fetched)
                  ELSE r IN
    IF variant = "dashboard" THEN afterFetchDashboard(t, cached)
    ELSE IF variant = "email" THEN afterFetchEmail(t, cached)
    ELSE afterFetch(t, cached)

\* the continuation that runs when a task's getCryptoPrices settles
continueAfterFetch(t, r) ==
    IF variant = "dashboard" THEN afterFetchDashboard(t, r)
    ELSE IF variant = "email" THEN afterFetchEmail(t, r)
    ELSE afterFetch(t, r)

\* the price API answers task i
FetchSettles(i) ==
    /\ proc = "running"
    /\ tasks[i].pc = "fetching"
    /\ \E response \in PipelineResponses(TokensOf(variant)) :
          LET t == continueAfterFetch([tasks[i] EXCEPT !.fetched = response],
                                      getCryptoPrices(TokensOf(variant), response)) IN
          /\ tasks' = [tasks EXCEPT ![i] = t]
          /\ proc' = procAfter(t)
    /\ UNCHANGED hostvars
    /\ UNCHANGED <<variant, BOT_TOKEN, CHAT_ID, fin, fout>>

\* the messaging API answers the price report of task i
ReportSettles(i) ==
    /\ proc = "running"
    /\ tasks[i].pc = "sending"
    /\ \E outcome \in PostOutcomes :
          LET t == afterReport(tasks[i], sendTelegramMessage(outcome)) IN
          /\ tasks' = [tasks EXCEPT ![i] = t]
          /\ proc' = procAfter(t)
    /\ UNCHANGED hostvars
    /\ UNCHANGED <<variant, BOT_TOKEN, CHAT_ID, fin, fout>>

\* the messaging API answers the failure notification of task i
NotifySettles(i) ==
    /\ proc = "running"
    /\ tasks[i].pc = "notifying"
    /\ \E outcome \in PostOutcomes :
          LET t == afterNotify(tasks[i], sendTelegramMessage(outcome)) IN
          /\ tasks' = [tasks EXCEPT ![i] = t]
          /\ proc' = procAfter(t)
    /\ UNCHANGED hostvars
    /\ UNCHANGED <<variant, BOT_TOKEN, CHAT_ID, fin, fout>>

\* the mail relay answers task i
MailSettles(i) ==
    /\ proc = "running"
    /\ tasks[i].pc = "mailing"
    /\ \E outcome \in MailOutcomes :
          LET t == afterMail(tasks[i], outcome) IN
          /\ tasks' = [tasks EXCEPT ![i] = t]
          /\ proc' = procAfter(t)
    /\ UNCHANGED hostvars
    /\ UNCHANGED <<variant, BOT_TOKEN, CHAT_ID, fin, fout>>

Next ==
    \/ LoadEmailModule
    \/ CronFire
    \/ BotRequest
    \/ DashboardRequest
    \/ \E i \in 1..Len(tasks) : FetchSettles(i)
    \/ \E i \in 1..Len(tasks) : ReportSettles(i)
    \/ \E i \in 1..Len(tasks) : NotifySettles(i)
    \/ \E i \in 1..Len(tasks) : MailSettles(i)

Spec == Init /\ [][Next]_vars

(***************************************************************************)
(* The recurring timer                                                     *)
(***************************************************************************)
\* the `timezone: 'Australia/Brisbane'` option: UTC+10 all year, Queensland
\* keeps no daylight-saving time
zoneOffset == 10 * 60

\* the time of day, in minutes, the scheduler sees in its time zone
localMinuteOfDay(c) == (c + zoneOffset) % (24 * 60)

\* the minute and hour fields of cronExpression: '0 11 * * *' in the chat
\* and bot variants, '0 1 * * *' in the email variant
cronExpression(v) ==
    IF v = "email" THEN [minute |-> 0, hour |-> 1] ELSE [minute |-> 0, hour |-> 11]

\* node-cron matches the expression against the time in the given zone
cronMatches(expr, c) ==
    /\ localMinuteOfDay(c) % 60 = expr.minute
    /\ localMinuteOfDay(c) \div 60 = expr.hour

PushVariants == {"chat", "bot", "email"}

InitTimer ==
    /\ variant \in PushVariants
    /\ BOT_TOKEN = IF variant = "email" THEN "" ELSE "123456:token"
    /\ CHAT_ID = IF variant = "email" THEN "" ELSE "-1001"
    /\ proc = IF variant = "email" THEN "loading" ELSE "running"
    /\ tasks = << >>
    /\ fin = [tokens |-> << >>]
    /\ fout = NoCall
    /\ clock = 0
    /\ fired = << >>
    /\ server = ServerAtStart(variant)
    /\ signals = << >>

\* a minute passes; when the expression matches the new minute the cron
\* callback runs: sendCryptoPriceUpdate() or sendPriceEmail() is called and
\* runs up to its first await
TimerTick ==
    /\ proc = "running"
    /\ variant \in PushVariants
    /\ clock < MaxDays * 24 * 60
    /\ clock' = clock + 1
    /\ IF cronMatches(cronExpression(variant), clock')
       THEN /\ fired' = Append(fired, clock')
            /\ tasks' = Append(tasks, issueFetch(NewTask("cron", "")))
       ELSE UNCHANGED <<fired, tasks>>
    /\ UNCHANGED <<variant, BOT_TOKEN, CHAT_ID, proc, fin, fout, server, signals>>

NextTimer ==
    \/ LoadEmailModule
    \/ TimerTick

SpecTimer == InitTimer /\ [][NextTimer]_vars

(***************************************************************************)
(* Shutdown signals                                                        *)
(***************************************************************************)
Signals == {"SIGINT", "SIGTERM"}

\* the signals a variant registers a handler for with process.on
handledSignals(v) ==
    IF v = "bot" THEN {"SIGINT", "SIGTERM"}
    ELSE IF v \in {"chat", "email"} THEN {"SIGINT"}
    ELSE {}

\* fault injection: the bot's handler exits at once, as the chat variant's does
botSignalHandlerExitNow(srv) ==
    [srv |-> srv, proc |-> "exited"]

\* the bot's handler: `server.close(() => process.exit(0))`; the listening
\* socket is closed at once, the callback waits for the 'close' event
botSignalHandler(srv) ==
    [srv |-> [srv EXCEPT !.socket = "closed", !.closeCallbacks = @ + 1],
     proc |-> "running"]

\* what the delivery of one signal does to the server and the process: the
\* registered handler runs, or Node's default action ends the process
onSignal(v, sig, srv) ==
    IF sig \notin handledSignals(v) THEN [srv |-> srv, proc |-> "killed"]
    ELSE IF v = "bot" THEN botSignalHandler(srv)
    ELSE [srv |-> srv, proc |-> "exited"]

\* a shutdown signal is delivered to the process
Signal ==
    /\ proc = "running"
    /\ Len(signals) < MaxSignals
    /\ \E sig \in Signals :
          /\ signals' = Append(signals, sig)
          /\ server' = onSignal(variant, sig, server).srv
          /\ proc' = onSignal(variant, sig, server).proc
    /\ UNCHANGED <<variant, BOT_TOKEN, CHAT_ID, tasks, fin, fout, clock, fired>>

\* a client opens a connection to the listening socket
Connect ==
    /\ proc = "running"
    /\ server.socket = "listening"
    /\ server.conns < MaxConns
    /\ server' = [server EXCEPT !.conns = @ + 1]
    /\ UNCHANGED <<variant, BOT_TOKEN, CHAT_ID, proc, tasks, fin, fout, clock, fired, signals>>

\* a connection ends
Disconnect ==
    /\ proc = "running"
    /\ server.conns > 0
    /\ server' = [server EXCEPT !.conns = @ - 1]
    /\ UNCHANGED <<variant, BOT_TOKEN, CHAT_ID, proc, tasks, fin, fout, clock, fired, signals>>

\* the server emits 'close' once it no longer listens and its connections
\* have ended; the callbacks given to server.close run: process.exit(0)
CloseCallback ==
    /\ proc = "running"
    /\ server.socket = "closed"
    /\ server.conns = 0
    /\ server.closeCallbacks > 0
    /\ proc' = "exited"
    /\ UNCHANGED <<variant, BOT_TOKEN, CHAT_ID, tasks, fin, fout, clock, fired, server, signals>>

NextShutdown ==
    \/ LoadEmailModule
    \/ Signal
    \/ Connect
    \/ Disconnect
    \/ CloseCallback

SpecShutdown == Init /\ [][NextShutdown]_vars

\* connections end (keep-alive timeout) and due callbacks run
FairShutdown ==
    SpecShutdown /\ WF_vars(Disconnect) /\ WF_vars(CloseCallback)

(***************************************************************************)
(* Pure specification: the functions applied to bounded inputs             *)
(***************************************************************************)
TokenTables == {CRYPTO_TOKENS, CRYPTO_TOKENS_DASHBOARD}

PureResponses(tokens) ==
    FailedResponses \cup
    { OkResponse(b) : b \in Bodies(tokenIds(tokens) \cup {UntrackedId}) }

InitPure ==
    /\ variant = "none"
    /\ BOT_TOKEN = ""
    /\ CHAT_ID = ""
    /\ proc = "running"
    /\ tasks = <<>>
    /\ \/ \E tokens \in TokenTables : \E r \in PureResponses(tokens) :
             fin = [tokens |-> tokens, response |-> r]
       \/ \E outcome \in PostOutcomes : fin = [outcome |-> outcome]
    /\ fout = NoCall
    /\ clock = 0
    /\ fired = << >>
    /\ server = NoServer
    /\ signals = << >>

CallGetCryptoPrices ==
    /\ fout = NoCall
    /\ "response" \in DOMAIN fin
    /\ fout' = [fn |-> "getCryptoPrices", result |-> getCryptoPrices(fin.tokens, fin.response)]
    /\ UNCHANGED hostvars
    /\ UNCHANGED <<variant, BOT_TOKEN, CHAT_ID, proc, tasks, fin>>

\* the quote list a renderer is handed: what getCryptoPrices returned, or
\* the empty list when it threw
RenderInput == IF fout.result.threw THEN << >> ELSE fout.result.value

\* the error strings a caller can pass to generateHTML
ErrorArgs ==
    {NoError, "", "Failed to fetch prices", FetchFailed.message, JsonInvalid.message}
    \cup { HttpError(s).message : s \in ErrorStatuses }

CallFormatTelegramMessage ==
    /\ fout # NoCall
    /\ fout.fn = "getCryptoPrices"
    /\ fout' = [fn |-> "formatTelegramMessage", prices |-> RenderInput,
                doc |-> formatTelegramMessage(RenderInput)]
    /\ UNCHANGED hostvars
    /\ UNCHANGED <<variant, BOT_TOKEN, CHAT_ID, proc, tasks, fin>>

CallGenerateHTML ==
    /\ fout # NoCall
    /\ fout.fn = "getCryptoPrices"
    /\ \E error \in ErrorArgs :
          fout' = [fn |-> "generateHTML", prices |-> RenderInput, error |-> error,
                   doc |-> generateHTML(RenderInput, error)]
    /\ UNCHANGED hostvars
    /\ UNCHANGED <<variant, BOT_TOKEN, CHAT_ID, proc, tasks, fin>>

CallFormatPriceEmail ==
    /\ fout # NoCall
    /\ fout.fn = "getCryptoPrices"
    /\ fout' = [fn |-> "formatPriceEmail", prices |-> RenderInput,
                doc |-> formatPriceEmail(RenderInput)]
    /\ UNCHANGED hostvars
    /\ UNCHANGED <<variant, BOT_TOKEN, CHAT_ID, proc, tasks, fin>>

CallSendTelegramMessage ==
    /\ fout = NoCall
    /\ "outcome" \in DOMAIN fin
    /\ fout' = [fn |-> "sendTelegramMessage", result |-> sendTelegramMessage(fin.outcome)]
    /\ UNCHANGED hostvars
    /\ UNCHANGED <<variant, BOT_TOKEN, CHAT_ID, proc, tasks, fin>>

NextPure ==
    \/ CallGetCryptoPrices
    \/ CallSendTelegramMessage
    \/ CallFormatTelegramMessage
    \/ CallGenerateHTML
    \/ CallFormatPriceEmail

SpecPure == InitPure /\ [][NextPure]_vars

(***************************************************************************)
(* Claims about getCryptoPrices                                            *)
(***************************************************************************)
\* the call under test was getCryptoPrices on a successful response
FetchedOk ==
    /\ fout # NoCall
    /\ fout.fn = "getCryptoPrices"
    /\ fin.response.kind = "http"
    /\ fin.response.ok
    /\ fin.response.parse = "object"

\* S: the tracked provider ids that have an entry in the response body
PresentTracked == DOMAIN fin.response.body \cap tokenIds(fin.tokens)

\* the symbol CRYPTO_TOKENS maps to a provider id
SymbolOf(tokens, coinGeckoId) ==
    tokens[CHOOSE i \in 1..Len(tokens) : tokens[i].coinGeckoId = coinGeckoId].symbol

\* C1: on a successful response holding entries for the subset S of the
\* tracked provider ids (and possibly untracked ids), getCryptoPrices returns
\* without error exactly |S| quotes, one per id of S, each with the symbol
\* CRYPTO_TOKENS maps to its id, and none for an id outside S.
C1_ExactlyPresentQuotes ==
    FetchedOk =>
        /\ ~fout.result.threw
        /\ LET prices == fout.result.value IN
           /\ Len(prices) = Cardinality(PresentTracked)
           /\ { prices[i].id : i \in 1..Len(prices) } = PresentTracked
           /\ \A i \in 1..Len(prices) :
                 prices[i].symbol = SymbolOf(fin.tokens, prices[i].id)

\* a response with an untracked id and a proper, non-empty subset of the
\* tracked ids has been converted
C1_Witness ==
    /\ FetchedOk
    /\ UntrackedId \in DOMAIN fin.response.body
    /\ PresentTracked # {}
    /\ PresentTracked # tokenIds(fin.tokens)
    /\ Len(fout.result.value) = Cardinality(PresentTracked)

\* C2: a tracked entry that is present without its 24h-change field gives a
\* quote whose price_change_percentage_24h is defined and exactly 0 and whose
\* current_price is the entry's usd value.
C2_MissingChangeIsZero ==
    FetchedOk =>
        \A i \in 1..Len(fout.result.value) :
            LET q == fout.result.value[i]
                entry == fin.response.body[q.id] IN
            "usd_24h_change" \notin DOMAIN entry =>
                /\ "price_change_percentage_24h" \in DOMAIN q
                /\ q.price_change_percentage_24h = 0
                /\ q.current_price = entry.usd

\* a quote was built from an entry without the field, next to one with a
\* non-zero change
C2_Witness ==
    /\ FetchedOk
    /\ \E i, j \in 1..Len(fout.result.value) :
          LET q == fout.result.value[i]
              r == fout.result.value[j] IN
          /\ "usd_24h_change" \notin DOMAIN fin.response.body[q.id]
          /\ q.price_change_percentage_24h = 0
          /\ q.current_price = MaxUsd
          /\ r.price_change_percentage_24h # 0

(***************************************************************************)
(* Claims about the pipeline                                               *)
(***************************************************************************)
Tasks == { tasks[i] : i \in 1..Len(tasks) }

\* a run of sendCryptoPriceUpdate (chat and bot variants)
IsUpdateRun(t) == variant \in {"chat", "bot"} /\ t.trigger \in {"cron", "test"}

\* a run of sendPriceEmail
IsEmailRun(t) == variant = "email" /\ t.trigger = "cron"

Configured == BOT_TOKEN # "" /\ CHAT_ID # ""

\* how often an event of one kind occurs in a task's log
Count(t, ev) == Cardinality({ k \in 1..Len(t.log) : t.log[k].ev = ev })

PostsOf(t, what) == { k \in 1..Len(t.posts) : t.posts[k].what = what }

HttpFailed(t) == t.fetched.kind = "http" /\ ~t.fetched.ok

FetchFailedOrThrew(t) ==
    /\ t.fetched # NoFetch
    /\ ~(t.fetched.kind = "http" /\ t.fetched.ok /\ t.fetched.parse = "object")

FetchSucceeded(t) ==
    t.fetched.kind = "http" /\ t.fetched.ok /\ t.fetched.parse = "object"

\* C3: with the destination configured (BOT_TOKEN and CHAT_ID set), a run of
\* sendCryptoPriceUpdate whose price fetch got a non-success HTTP status
\* makes exactly one POST, a failure notification addressed to CHAT_ID, and
\* no price report.
C3_OneFailureNotification ==
    \A t \in Tasks :
        (IsUpdateRun(t) /\ HttpFailed(t) /\ Configured) =>
            /\ Len(t.posts) = 1
            /\ t.posts[1].what = "failure"
            /\ t.posts[1].chat_id = CHAT_ID
            /\ t.posts[1].text = errorMessage(HttpError(t.fetched.status))
            /\ Count(t, "post") = 1

\* a finished run whose fetch got HTTP 503 and which notified once
C3_Witness ==
    \E t \in Tasks :
        /\ IsUpdateRun(t) /\ Configured
        /\ HttpFailed(t) /\ t.fetched.status = 503
        /\ t.pc = "done"
        /\ Len(t.posts) = 1 /\ t.posts[1].what = "failure"

HasPart(doc, part) == \E k \in 1..Len(doc) : doc[k].part = part

\* C4: in the dashboard, a request whose price fetch failed is answered with
\* HTTP 200 and a page holding the error placeholder on the HTML path, and
\* with HTTP 500 and {success: false, error} on /api/prices; after a
\* successful fetch both paths answer 200; a handler that has finished has
\* written exactly one response.
C4_DashboardAnswers ==
    \A t \in Tasks :
        (variant = "dashboard" /\ t.pc = "done") =>
            /\ Count(t, "response") = 1
            /\ t.response # NoResponse
            /\ (FetchFailedOrThrew(t) /\ t.path = "/api/prices") =>
                   /\ t.response.status = 500
                   /\ t.response.body = [json |-> [success |-> FALSE, error |-> t.error.message]]
                   /\ t.error.message # ""
            /\ (FetchFailedOrThrew(t) /\ t.path # "/api/prices") =>
                   /\ t.response.status = 200
                   /\ \E k \in 1..Len(t.response.body.html) :
                         t.response.body.html[k] = [part |-> "error", text |-> t.error.message]
            /\ FetchSucceeded(t) => t.response.status = 200
            /\ (FetchSucceeded(t) /\ t.path = "/api/prices") =>
                   t.response.body = [json |-> [success |-> TRUE, data |-> t.prices]]

\* both paths have answered a failed fetch, one with 500 and one with 200
C4_Witness ==
    \E t, u \in Tasks :
        /\ variant = "dashboard"
        /\ t.pc = "done" /\ u.pc = "done"
        /\ FetchFailedOrThrew(t) /\ FetchFailedOrThrew(u)
        /\ t.path = "/api/prices" /\ t.response.status = 500
        /\ u.path = "/" /\ u.response.status = 200 /\ HasPart(u.response.body.html, "error")

\* the fetch succeeded and gave no quote at all
EmptyFetch(t) == FetchSucceeded(t) /\ t.prices = << >>

\* C5 as stated: a run of sendCryptoPriceUpdate whose fetch succeeded with an
\* empty quote list makes no POST to the messaging API.
C5_NoPostOnEmpty ==
    \A t \in Tasks : (IsUpdateRun(t) /\ EmptyFetch(t)) => t.posts = << >>

\* C5 amended: such a run never sends a price report; it makes one POST, the
\* failure notification "No price data retrieved", exactly when BOT_TOKEN
\* and CHAT_ID are both set, and none otherwise.
C5_NoReportOnEmpty ==
    \A t \in Tasks :
        (IsUpdateRun(t) /\ EmptyFetch(t)) =>
            /\ PostsOf(t, "report") = {}
            /\ Configured =>
                  /\ Len(t.posts) = 1
                  /\ t.posts[1].text = errorMessage(NoPriceData)
            /\ ~Configured => t.posts = << >>

\* a finished run with an empty quote list that sent the failure notification
C5_Witness ==
    \E t \in Tasks :
        /\ IsUpdateRun(t) /\ EmptyFetch(t) /\ t.pc = "done"
        /\ Len(t.posts) = 1 /\ t.posts[1].what = "failure"

\* C7 as stated: in one run every external collaborator (price API,
\* messaging API, mail relay) is called at most once.
C7_EachCollaboratorOnce ==
    \A t \in Tasks :
        /\ Count(t, "fetch") <= 1
        /\ Count(t, "post") <= 1
        /\ Count(t, "mail") <= 1

\* C7 amended: in one run the price API and the mail relay are called at
\* most once, and no message is sent twice: the messaging API gets at most
\* one price report and at most one failure notification, the notification
\* coming second and only after the report was rejected.
C7_NoRetries ==
    \A t \in Tasks :
        /\ Count(t, "fetch") <= 1
        /\ Count(t, "mail") <= 1
        /\ Count(t, "post") = Len(t.posts)
        /\ Cardinality(PostsOf(t, "report")) <= 1
        /\ Cardinality(PostsOf(t, "failure")) <= 1
        /\ Len(t.posts) = 2 =>
              /\ t.posts[1].what = "report"
              /\ t.posts[1].settled = "rejected"
              /\ t.posts[2].what = "failure"

\* a run whose report was rejected and which then sent the notification
C7_Witness ==
    \E t \in Tasks :
        /\ t.pc = "done"
        /\ Len(t.posts) = 2
        /\ t.posts[1].what = "report" /\ t.posts[1].settled = "rejected"
        /\ t.posts[2].what = "failure"
        /\ Count(t, "fetch") = 1

\* C8: a run of sendCryptoPriceUpdate or sendPriceEmail never rejects,
\* whatever the fetch, the delivery and the failure notification do: a
\* finished run has resolved, and no run ends the process.
C8_RunsNeverReject ==
    /\ \A t \in Tasks :
          (IsUpdateRun(t) \/ IsEmailRun(t)) =>
              /\ t.result # "rejected"
              /\ t.pc = "done" => t.result = "resolved"
    /\ tasks # << >> => proc = "running"

\* a chat run resolved although its failure notification was rejected too
C8_Witness ==
    \E t \in Tasks :
        /\ IsUpdateRun(t) /\ t.trigger = "cron"
        /\ t.pc = "done" /\ t.result = "resolved"
        /\ FetchFailedOrThrew(t)
        /\ Len(t.posts) = 1 /\ t.posts[1].settled = "rejected"
        /\ Len(tasks) = MaxTasks
        /\ proc = "running"

\* C9: when the POST of sendTelegramMessage gets a non-2xx response or the
\* request itself fails, sendTelegramMessage rejects with an error and does
\* not log the message as sent.
C9_NonSuccessRejects ==
    (fout # NoCall /\ fout.fn = "sendTelegramMessage"
        /\ (fin.outcome.kind = "netfail" \/ ~fin.outcome.ok)) =>
            /\ fout.result.settled = "rejected"
            /\ ~fout.result.loggedSent
            /\ fout.result.error.message # ""

\* a non-2xx response with a JSON error body has been handled
C9_Witness ==
    /\ fout # NoCall /\ fout.fn = "sendTelegramMessage"
    /\ fin.outcome.kind = "http" /\ ~fin.outcome.ok /\ fin.outcome.json
    /\ fout.result.settled = "rejected"
    /\ fout.result.error = TelegramApiError

TestResponse ==
    [status |-> 200, contentType |-> "text/plain",
     body |-> [text |-> "Triggering test message..."]]

\* C10: a /test request starts exactly one run and is answered first: the
\* response is the first event of the task and the run's single price fetch
\* comes after it; the response is the same whatever the run does, and the
\* run leaves the process running.
C10_TestAnsweredFirst ==
    \A t \in Tasks :
        (variant = "bot" /\ t.trigger = "test") =>
            /\ t.log[1].ev = "response"
            /\ Count(t, "response") = 1
            /\ Count(t, "fetch") = 1
            /\ t.log[2].ev = "fetch"
            /\ t.response = TestResponse
            /\ proc = "running"

\* a /test run that failed at every step, after the 200 response
C10_Witness ==
    \E t \in Tasks :
        /\ variant = "bot" /\ t.trigger = "test"
        /\ t.pc = "done"
        /\ FetchFailedOrThrew(t)
        /\ Len(t.posts) = 1 /\ t.posts[1].settled = "rejected"
        /\ t.response = TestResponse

\* what getCryptoPrices gives a task for the response the task itself got
OwnResult(t) == getCryptoPrices(TokensOf(variant), t.fetched)

\* the error a run reports after its own fetch
OwnFetchError(t) == IF OwnResult(t).threw THEN OwnResult(t).error ELSE NoPriceData

OwnQuotes(t) == IF OwnResult(t).threw THEN << >> ELSE OwnResult(t).value

\* the errors a rejected sendTelegramMessage hands to the caller
SendErrors == {FetchFailed, TelegramApiError, JsonInvalid}

\* C15: runs that overlap do not interact: every task that has fetched made
\* exactly one fetch of its own, and the report, failure text, mail or HTTP
\* response it produced is the one built from the quotes or the error of
\* that fetch, whatever other tasks fetched in the meantime.
C15_RunsIndependent ==
    \A t \in Tasks :
        t.fetched # NoFetch =>
            /\ Count(t, "fetch") = 1
            /\ t.prices = OwnQuotes(t)
            /\ IsUpdateRun(t) =>
                  /\ t.posts # << >> =>
                        t.posts[1].text =
                            IF OwnQuotes(t) # << >>
                            THEN formatTelegramMessage(OwnQuotes(t))
                            ELSE errorMessage(OwnFetchError(t))
                  /\ Len(t.posts) = 2 =>
                        /\ t.error \in SendErrors
                        /\ t.posts[2].text = errorMessage(t.error)
            /\ IsEmailRun(t) =>
                  /\ t.mails # << >> => t.mails[1].html = formatPriceEmail(OwnQuotes(t))
                  /\ t.mails = << >> => t.error = OwnFetchError(t)
            /\ variant = "dashboard" =>
                  t.response.body =
                      IF t.path = "/api/prices"
                      THEN IF OwnResult(t).threw
                           THEN [json |-> [success |-> FALSE, error |-> OwnFetchError(t).message]]
                           ELSE [json |-> [success |-> TRUE, data |-> OwnQuotes(t)]]
                      ELSE IF OwnResult(t).threw
                           THEN [html |-> generateHTML(<< >>, OwnFetchError(t).message)]
                           ELSE [html |-> generateHTML(OwnQuotes(t), NoError)]

\* two runs overlapped: the second one started later and has already sent
\* a report from its own quotes while the first, which fetched something
\* else, is still waiting for the messaging API
C15_Witness ==
    /\ Len(tasks) = 2
    /\ IsUpdateRun(tasks[1]) /\ IsUpdateRun(tasks[2])
    /\ tasks[1].pc = "notifying"
    /\ tasks[2].pc = "done"
    /\ tasks[1].fetched # tasks[2].fetched
    /\ tasks[1].prices = << >>
    /\ tasks[2].prices # << >>
    /\ tasks[2].posts[1].text = formatTelegramMessage(tasks[2].prices)

\* the messaging API answered the run's price report with a 2xx status
ReportAccepted(t) == \E k \in PostsOf(t, "report") : t.posts[k].accepted

\* C16: a run of sendCryptoPriceUpdate attempts a failure notification at
\* most once, only with BOT_TOKEN and CHAT_ID both non-empty and only when
\* its price report was not delivered (the messaging API did not accept it
\* with a 2xx status); and it sends a price report only after a successful
\* fetch that returned at least one quote.
C16_FailureOnlyIfUndelivered ==
    \A t \in Tasks :
        IsUpdateRun(t) =>
            /\ Cardinality(PostsOf(t, "failure")) <= 1
            /\ PostsOf(t, "failure") # {} => (Configured /\ ~ReportAccepted(t))
            /\ PostsOf(t, "report") # {} => (FetchSucceeded(t) /\ Len(t.prices) >= 1)

(***************************************************************************)
(* Claims about the renderers                                              *)
(***************************************************************************)
\* C6: generateHTML and formatPriceEmail, given an empty quote list, with or
\* without an error string, produce a document with an error placeholder,
\* without a loading indicator and without an empty price section.
C6_EmptyShowsError ==
    (fout # NoCall /\ fout.fn \in {"generateHTML", "formatPriceEmail"}
        /\ fout.prices = << >>) =>
            /\ HasPart(fout.doc, "error")
            /\ ~HasPart(fout.doc, "loading")

\* the per-asset parts of a rendered document, in document order
IsAssetPart(p) == p.part \in {"token", "price-card"}
AssetParts(doc) == SelectSeq(doc, IsAssetPart)

Rendered == fout # NoCall /\ fout.fn \in {"formatTelegramMessage", "generateHTML", "formatPriceEmail"}

\* the directional indicator a change line shows
ShownIndicator(p) ==
    IF \E k \in 1..Len(p.changeText) :
          p.changeText[k] \in {[lit |-> "chart-up"], [lit |-> "triangle-up"]}
    THEN "up"
    ELSE IF \E k \in 1..Len(p.changeText) :
          p.changeText[k] \in {[lit |-> "chart-down"], [lit |-> "triangle-down"]}
    THEN "down"
    ELSE "none"

\* the sign character a change line shows in front of its digits
ShownSign(p) ==
    IF \E k \in 1..Len(p.changeText) :
          "num" \in DOMAIN p.changeText[k] /\ p.changeText[k].num.minus
    THEN "-"
    ELSE IF \E k \in 1..Len(p.changeText) : p.changeText[k] = [lit |-> "+"]
    THEN "+"
    ELSE "none"

TableIndex(tokens, symbol) == CHOOSE i \in 1..Len(tokens) : tokens[i].symbol = symbol

\* a sequence of records with a symbol follows the order of the table
InTableOrder(tokens, seq) ==
    \A i, j \in 1..Len(seq) :
        i < j => TableIndex(tokens, seq[i].symbol) < TableIndex(tokens, seq[j].symbol)

\* C13: the quotes getCryptoPrices returns, and the per-asset sections of
\* every rendered message, follow the insertion order of CRYPTO_TOKENS
\* (COOKIE, BTC, KAITO, dropped assets skipped), whatever the response holds.
C13_TableOrder ==
    /\ FetchedOk => InTableOrder(fin.tokens, fout.result.value)
    /\ Rendered =>
          /\ Len(AssetParts(fout.doc)) = Len(fout.prices)
          /\ \A i \in 1..Len(fout.prices) :
                AssetParts(fout.doc)[i].symbol = fout.prices[i].symbol
          /\ InTableOrder(fin.tokens, AssetParts(fout.doc))

\* COOKIE and KAITO rendered in that order, BTC dropped, the later asset
\* having the lower price
C13_Witness ==
    /\ Rendered
    /\ Len(fout.prices) = 2
    /\ AssetParts(fout.doc)[1].symbol = "COOKIE"
    /\ AssetParts(fout.doc)[2].symbol = "KAITO"
    /\ fout.prices[1].current_price > fout.prices[2].current_price

(***************************************************************************)
(* Claims about the timer                                                  *)
(***************************************************************************)
\* the minutes up to now at which it was 11:00 AM in Brisbane
ElevenAMs == { c \in 1..clock : localMinuteOfDay(c) = 11 * 60 }

\* C14: in every push variant the timer fires the pipeline exactly once per
\* day, at the minute the Australia/Brisbane local time is 11:00 AM: every
\* fire falls on such a minute and every such minute has had its fire.
C14_FiresAtElevenBrisbane ==
    (variant \in PushVariants /\ proc = "running") =>
        /\ \A k \in 1..Len(fired) : localMinuteOfDay(fired[k]) = 11 * 60
        /\ Len(fired) = Cardinality(ElevenAMs)
        /\ Len(tasks) = Len(fired)

\* the chat and bot variants do fire at 11:00 AM Brisbane, once a day
TimerChatFiresAtEleven ==
    (variant \in {"chat", "bot"}) =>
        /\ \A k \in 1..Len(fired) : localMinuteOfDay(fired[k]) = 11 * 60
        /\ Len(fired) = Cardinality(ElevenAMs)

\* the email variant fires at 1:00 AM Brisbane, once a day
TimerEmailFiresAtOne ==
    (variant = "email" /\ proc = "running") =>
        /\ \A k \in 1..Len(fired) : localMinuteOfDay(fired[k]) = 60
        /\ Len(fired) = Cardinality({ c \in 1..clock : localMinuteOfDay(c) = 60 })

(***************************************************************************)
(* Claims about shutdown                                                   *)
(***************************************************************************)
OpensSocket == variant \in {"bot", "dashboard"}

\* the process has ended after a shutdown signal
EndedOnSignal == signals # << >> /\ proc \in {"exited", "killed"}

\* C11: in every variant that opens a listening socket, a process that has
\* ended on SIGINT or SIGTERM has closed its listening socket first.
C11_SocketClosedBeforeExit ==
    (OpensSocket /\ EndedOnSignal) => server.socket = "closed"

\* the bot variant closes its socket before it exits on a signal
ShutdownBotClosesSocket ==
    (variant = "bot" /\ EndedOnSignal) =>
        /\ server.socket = "closed"
        /\ server.conns = 0
        /\ proc = "exited"

\* the bot variant exits after a signal, once its connections have ended
ShutdownBotEventuallyExits ==
    (variant = "bot" /\ signals # << >>) ~> (proc = "exited")

====
